---------------------------- MODULE Spec2Model ----------------------------
(***************************************************************************)
(* premiere-hunter (src/src/main.rs): the per-file scanning engine and its *)
(* parallel dispatcher.                                                    *)
(*                                                                         *)
(* A string is a sequence of Unicode code points (65 is 'A', 931 is the    *)
(* Greek capital sigma), so that byte lengths, byte offsets, character     *)
(* boundaries and the sort order are those of Rust's UTF-8 strings.        *)
(*                                                                         *)
(* Four state machines share the variables:                                *)
(*   SpecMatch   one file's closure in contains or snippet mode            *)
(*   SpecAssets  one file's closure in list-assets mode                    *)
(*   SpecNorm    normalize_asset_path applied to raw values                *)
(*   Spec        main's parallel dispatch over the enumerated files        *)
(***************************************************************************)
EXTENDS Integers, Sequences, FiniteSets, TLC

\* ------------------------------------------------------------------ bounds
\* Files of the pre-enumerated list (target_files) in Spec.
NumFiles == 2
\* Worker threads of the pool in Spec.
NumWorkers == 2
\* Most assets one project lists (after the filter) in Spec.
MaxAssets == 2
\* Most pieces a raw value of SpecNorm is put together from.
MaxFragments == 2
\* Most XML events the parser yields before the end of the document in SpecAssets.
MaxEvents == 4
\* Most characters a file's decoded text holds in SpecMatch.
MaxTextLen == 3
\* Most lines the reader yields before end of file in SpecMatch.
MaxLines == 2
\* Most characters of a search term in SpecMatch.
MaxNeedleLen == 2
\* Largest --snippet-chars value tried (0 stands for the default).
MaxSnippetChars == 2
\* Most bytes of a file in SpecOpen.
MaxFileBytes == 3

\* --------------------------------------------------------------- characters
\* The code points the model's texts are written with.
Ch == [A |-> 65, a |-> 97, Sigma |-> 931, sigma |-> 963, fsigma |-> 962,
       tab |-> 9, space |-> 32, dot |-> 46, slash |-> 47, bslash |-> 92,
       amp |-> 38, semi |-> 59, colon |-> 58]

\* Characters of the files of SpecMatch: an ASCII letter in both cases, a
\* two-byte letter whose lowercase depends on its context, and a character
\* that is not a letter (the full stop, which Unicode calls case-ignorable).
FileAlphabet == {Ch.A, Ch.a, Ch.Sigma, Ch.dot}

\* Characters of the search terms of SpecMatch: the letters of the files and
\* the final sigma a capital sigma may lower to.
NeedleAlphabet == {Ch.A, Ch.a, Ch.Sigma, Ch.fsigma}

SeqsUpTo(S, n) == UNION {[1..k -> S] : k \in 0..n}

\* char::len_utf8
len_utf8(c) == IF c < 128 THEN 1 ELSE IF c < 2048 THEN 2 ELSE IF c < 65536 THEN 3 ELSE 4

\* str::len: the length in bytes
RECURSIVE len(_)
len(s) == IF s = <<>> THEN 0 ELSE len_utf8(Head(s)) + len(Tail(s))

\* str::char_indices: the byte offset at which each character starts
char_indices(s) == [i \in 1..Len(s) |-> len(SubSeq(s, 1, i - 1))]

\* u8::to_ascii_lowercase on a code point (non-ASCII is left alone)
to_ascii_lowercase_char(c) == IF c >= 65 /\ c <= 90 THEN c + 32 ELSE c

\* str::to_ascii_lowercase
to_ascii_lowercase(s) == [i \in 1..Len(s) |-> to_ascii_lowercase_char(s[i])]

\* core::unicode::Cased, on the characters the model uses
Cased(c) == (c >= 65 /\ c <= 90) \/ (c >= 97 /\ c <= 122) \/ c \in {931, 962, 963}

\* core::unicode::Case_Ignorable, on the characters the model uses
Case_Ignorable(c) == c \in {39, 46, 58, 94, 96}

\* alloc::str case_ignorable_then_cased over the characters in iteration order
case_ignorable_then_cased(s) ==
    LET rest == {i \in 1..Len(s) : ~Case_Ignorable(s[i])}
    IN  rest # {} /\ Cased(s[CHOOSE i \in rest : \A j \in rest : i <= j])

Reverse(s) == [i \in 1..Len(s) |-> s[Len(s) + 1 - i]]

\* alloc::str map_uppercase_sigma: a capital sigma lowers to the final sigma
\* when a cased letter precedes it and none follows it.
map_uppercase_sigma(s, i) ==
    IF case_ignorable_then_cased(Reverse(SubSeq(s, 1, i - 1)))
       /\ ~case_ignorable_then_cased(SubSeq(s, i + 1, Len(s)))
    THEN 962 ELSE 963

\* str::to_lowercase (every uppercase letter the model uses lowers to one
\* character, so positions are kept)
to_lowercase(s) ==
    [i \in 1..Len(s) |->
        IF s[i] = 931 THEN map_uppercase_sigma(s, i)
        ELSE to_ascii_lowercase_char(s[i])]

\* str::contains
contains(hay, pat) ==
    \E i \in 0..(Len(hay) - Len(pat)) : SubSeq(hay, i + 1, i + Len(pat)) = pat

\* str::find: the byte offset of the first occurrence (contains(hay, pat) holds)
find(hay, pat) ==
    LET at == {i \in 0..(Len(hay) - Len(pat)) : SubSeq(hay, i + 1, i + Len(pat)) = pat}
        first == CHOOSE i \in at : \A j \in at : i <= j
    IN  len(SubSeq(hay, 1, first))

\* Option<T>: None is the empty sequence and Some(x) the sequence of x alone.
None == <<>>
Some(x) == <<x>>

Min(a, b) == IF a <= b THEN a ELSE b
Max(a, b) == IF a >= b THEN a ELSE b


\* ----------------------------------------------------------- asset paths
\* str::trim: the whitespace the model uses is the space and the tab
is_whitespace(c) == c \in {9, 10, 13, 32}

RECURSIVE trim_start(_)
trim_start(s) ==
    IF s # <<>> /\ is_whitespace(Head(s)) THEN trim_start(Tail(s)) ELSE s

trim(s) == Reverse(trim_start(Reverse(trim_start(s))))

\* str::starts_with
starts_with(s, pat) == Len(s) >= Len(pat) /\ SubSeq(s, 1, Len(pat)) = pat

\* str::replace: every non-overlapping occurrence, leftmost first
RECURSIVE replace(_, _, _)
replace(s, pat, to) ==
    IF s = <<>> THEN <<>>
    ELSE IF starts_with(s, pat) THEN to \o replace(SubSeq(s, Len(pat) + 1, Len(s)), pat, to)
    ELSE <<Head(s)>> \o replace(Tail(s), pat, to)

\* main.rs 228-234
xml_unescape(s) ==
    LET amp == replace(s, <<38, 97, 109, 112, 59>>, <<38>>)   \* "&amp;"
        quot == replace(amp, <<38, 113, 117, 111, 116, 59>>, <<34>>)   \* "&quot;"
        apos == replace(quot, <<38, 97, 112, 111, 115, 59>>, <<39>>)   \* "&apos;"
        lt == replace(apos, <<38, 108, 116, 59>>, <<60>>)   \* "&lt;"
    IN  replace(lt, <<38, 103, 116, 59>>, <<62>>)   \* "&gt;"

\* main.rs 236-246 (the prefixes are ASCII: 8 and 7 bytes are 8 and 7 characters)
normalize_asset_path(raw) ==
    LET v == trim(raw)
        stripped ==
            IF starts_with(to_lowercase(v), <<102, 105, 108, 101, 58, 47, 47, 47>>)
            THEN SubSeq(v, 9, Len(v))        \* "file:///"
            ELSE IF starts_with(to_lowercase(v), <<102, 105, 108, 101, 58, 47, 47>>)
            THEN SubSeq(v, 8, Len(v))        \* "file://"
            ELSE v
    IN  xml_unescape(replace(stripped, <<47>>, <<92>>))

\* The pieces the raw values of SpecNorm are put together from.
Fragments ==
    {<<102, 105, 108, 101, 58, 47, 47, 47>>,   \* "file:///"
     <<102, 105, 108, 101, 58, 47, 47>>,   \* "file://"
     <<70, 73, 76, 69, 58, 47, 47>>,   \* "FILE://"
     <<32>>,   \* " "
     <<47>>,   \* "/"
     <<97>>,   \* "a"
     <<46, 109, 112, 52>>,   \* ".mp4"
     <<38, 97, 109, 112, 59>>,   \* "&amp;"
     <<97, 109, 112, 59>>,   \* "amp;"
     <<38, 108, 116, 59>>,   \* "&lt;"
     <<38, 113, 117, 111, 116, 59>>}   \* "&quot;"

RECURSIVE Concat(_)
Concat(ss) == IF ss = <<>> THEN <<>> ELSE Head(ss) \o Concat(Tail(ss))

\* The raw values SpecNorm normalizes: up to MaxFragments pieces in a row.
RawValues == {Concat(fs) : fs \in SeqsUpTo(Fragments, MaxFragments)}


\* ------------------------------------------------------------------- state
VARIABLES
    \* one file's closure in contains or snippet mode (main.rs 79-217, 648-677)
    show_snippets,   \* args.show_snippets && !list_assets
    search_text,     \* the search term handed to the scan
    snippet_chars,   \* args.snippet_chars
    overlap,         \* the carry-over buffer
    combined,        \* the combined text of the line tested last
    text,            \* every line decoded so far, concatenated (history)
    nlines,          \* lines the reader has yielded so far
    decode_failed,   \* whether a line failed UTF-8 decoding (history)
    result,          \* what the scan returned, "running" until it returns
    snippet,         \* the slice taken for the snippet, when one was returned
    pc,              \* the closure's position: scan, count, processed, done
    \* the shared counters (main.rs 602-606)
    files_processed,
    files_matched,
    total_assets,
    errors,
    \* main's parallel dispatch (main.rs 484-491, 525-536, 602-718)
    mode,            \* "contains", "snippet" or "list_assets"
    max_file_size_bytes, \* the size threshold in bytes, an Option (main.rs 491)
    interrupted,     \* the Ctrl+C flag
    search_result,   \* try_for_each's result so far: "Ok", or "Err" once a
                     \* closure has returned Err (no further item is handed out)
    status,          \* per file: pending, taken, cancelled, scanning, processed
    scan,            \* per worker: what the scan its closure called returned,
                     \* whether it opened the file and whether the file was
                     \* over the threshold, until the closure has matched on it
    outcomes,        \* how many scans returned an error, returned a hit, and
                     \* skipped a file over the threshold (history)
    wpc,             \* per worker: idle, check, scan, count, processed, recheck
    wfile,           \* per worker: the file its closure was called with, 0 when idle
    main_pc,         \* "par_iter" until the summary is printed, then "exited"
    was_interrupted, \* main.rs 689
    exit_code,
    \* normalize_asset_path applied once and again (main.rs 236-246)
    raw,             \* the raw value
    norm_once,       \* normalize_asset_path(raw), an Option
    norm_twice,      \* normalize_asset_path of that, an Option
    \* one file's closure in list-assets mode (main.rs 273-364, 627-647, 677)
    asset_filter,    \* the optional filter term, an Option
    want_text,
    seen,
    assets,
    events_read,     \* events the parser has yielded so far
    last_tag,        \* the kind of the last tag event (history)
    parse_failed,    \* whether the parser reported an error (history)
    returned,        \* what extract_assets_from_prproj returned
    listed,          \* the assets left by the filter
    xml_pc,          \* the closure's position: events, count, processed, done
    \* main's resolution of its arguments and configuration (main.rs 367-417,
    \* 484-491, 608-613) and the scan its closure calls (main.rs 627-663)
    args_search_text,     \* args.search_text, an Option
    config,               \* the loaded configuration, an Option of a record
    list_assets,          \* args.list_assets
    args_show_snippets,   \* args.show_snippets
    stdin_line,           \* what read_line yields: None for an error, or the line
    search_text_opt,      \* main.rs 384
    required_search_text, \* main.rs 413
    scan_call,            \* the scan function the closure called and its arguments
    \* opening one file and choosing the reader (main.rs 92-104, 156-165, 257-271)
    file_bytes,      \* the bytes of the file on disk
    file_pos,        \* the position of the open file
    magic_n,         \* n, the number of bytes the peek read
    magic,           \* the two-byte buffer
    reader,          \* "none", "gzip" or "plain", or "Err" when a call failed
    stream,          \* the bytes the reader is given: the file from file_pos on
    open_pc,         \* open, peek, seek, wrap, done
    \* the two search functions called on one file (main.rs 79-136, 139-217)
    file_lines,      \* the decoded lines of the file
    contains_ret,    \* what file_contains_case_insensitive returned, an Option
    snippet_ret,     \* what file_snippet_case_insensitive returned, an Option
    modes_pc         \* contains, snippet, done

match_vars == <<show_snippets, search_text, snippet_chars, overlap, combined,
                text, nlines, decode_failed, result, snippet, pc>>
counter_vars == <<files_processed, files_matched, total_assets, errors>>
disp_vars == <<mode, max_file_size_bytes, interrupted, search_result, status, scan, outcomes,
               outcomes, wpc, wfile, main_pc, was_interrupted, exit_code>>
disp_vars_but_wpc == <<mode, max_file_size_bytes, interrupted, search_result, status,
                       scan, outcomes, wfile, main_pc, was_interrupted, exit_code>>
norm_vars == <<raw, norm_once, norm_twice>>
asset_vars == <<asset_filter, want_text, seen, assets, events_read,
                last_tag, parse_failed, returned, listed, xml_pc>>
args_vars == <<args_search_text, config, list_assets, args_show_snippets, stdin_line,
               search_text_opt, required_search_text, scan_call>>
open_vars == <<file_bytes, file_pos, magic_n, magic, reader, stream, open_pc>>
modes_vars == <<file_lines, contains_ret, snippet_ret, modes_pc>>
vars == <<match_vars, counter_vars, disp_vars, norm_vars, asset_vars, args_vars,
          open_vars, modes_vars>>

\* What the variables of a state machine that is not running hold.
MatchIdle ==
    /\ show_snippets = FALSE
    /\ search_text = <<>>
    /\ snippet_chars = 120
    /\ overlap = <<>>
    /\ combined = <<>>
    /\ text = <<>>
    /\ nlines = 0
    /\ decode_failed = FALSE
    /\ result = "running"
    /\ snippet = [start0 |-> 0, end0 |-> 0, start |-> 0, end |-> 0, slice |-> <<>>,
                  prefix |-> FALSE, suffix |-> FALSE, line |-> <<>>]
    /\ pc = "idle"

NormIdle ==
    /\ raw = <<>>
    /\ norm_once = None
    /\ norm_twice = None

AssetsIdle ==
    /\ asset_filter = None
    /\ want_text = FALSE
    /\ seen = {}
    /\ assets = <<>>
    /\ events_read = 0
    /\ last_tag = "none"
    /\ parse_failed = FALSE
    /\ returned = [state |-> "running", assets |-> <<>>]
    /\ listed = <<>>
    /\ xml_pc = "idle"

ArgsIdle ==
    /\ args_search_text = None
    /\ config = None
    /\ list_assets = FALSE
    /\ args_show_snippets = FALSE
    /\ stdin_line = None
    /\ search_text_opt = None
    /\ required_search_text = None
    /\ scan_call = None

OpenIdle ==
    /\ file_bytes = <<>>
    /\ file_pos = 0
    /\ magic_n = 0
    /\ magic = <<0, 0>>
    /\ reader = "none"
    /\ stream = <<>>
    /\ open_pc = "idle"

ModesIdle ==
    /\ file_lines = <<>>
    /\ contains_ret = None
    /\ snippet_ret = None
    /\ modes_pc = "idle"

DispIdle ==
    /\ mode = "contains"
    /\ max_file_size_bytes = <<>>
    /\ interrupted = FALSE
    /\ search_result = "Ok"
    /\ status = <<>>
    /\ scan = <<>>
    /\ outcomes = <<>>
    /\ wpc = <<>>
    /\ wfile = <<>>
    /\ main_pc = "idle"
    /\ was_interrupted = FALSE
    /\ exit_code = 0

\* ------------------------------------------------ contains and snippet mode
Needles == SeqsUpTo(NeedleAlphabet, MaxNeedleLen)
Lines == SeqsUpTo(FileAlphabet, MaxTextLen)
NoSnippet == [start0 |-> 0, end0 |-> 0, start |-> 0, end |-> 0, slice |-> <<>>,
              prefix |-> FALSE, suffix |-> FALSE, line |-> <<>>]

\* keep_overlap with the whole combined text carried over
keep_overlap_WholeText(comb, search_len) == comb

\* main.rs 120-132 and 201-213: the carry-over kept after a non-matching line
keep_overlap(comb, search_len) ==
    IF len(comb) >= search_len /\ search_len > 0
    THEN SubSeq(comb, Max(1, Len(comb) - (search_len - 1) + 1), Len(comb))
    ELSE comb

\* main.rs 116: the test of one combined text in contains mode
contains_test(comb, needle) == contains(to_lowercase(comb), to_lowercase(needle))

\* main.rs 177-179: the test of one combined text in snippet mode
snippet_test(comb, needle) ==
    contains(to_ascii_lowercase(comb), to_ascii_lowercase(needle))

\* main.rs 171
total_chars_of(chars) == IF chars = 0 THEN 120 ELSE chars

\* str::is_char_boundary, which a slice's ends must satisfy (main.rs 190): the
\* offset of a character or the length
is_char_boundary(s, i) ==
    i = len(s) \/ \E k \in 1..Len(s) : char_indices(s)[k] = i

\* last_index_upto with the byte offset taken as it is
last_index_upto_Raw(comb, off, dflt) == off

\* main.rs 187-188: the last character index not above a byte offset
last_index_upto(comb, off, dflt) ==
    LET idx == {char_indices(comb)[k] : k \in 1..Len(comb)}
        ok == {i \in idx : i <= off}
    IN  IF ok = {} THEN dflt ELSE CHOOSE i \in ok : \A j \in ok : j <= i

\* main.rs 179-198: the snippet cut from a matching combined text
make_snippet(comb, needle, chars) ==
    LET needle_lower == to_ascii_lowercase(needle)
        search_len == len(needle_lower)
        half == total_chars_of(chars) \div 2
        match_start == find(to_ascii_lowercase(comb), needle_lower)
        match_end == match_start + search_len
        start0 == Max(0, match_start - half)
        end0 == Min(len(comb), match_end + half)
        start == last_index_upto(comb, start0, 0)
        end == last_index_upto(comb, end0, len(comb))
        ci == char_indices(comb)
        kept == SelectSeq([k \in 1..Len(comb) |-> k],
                          LAMBDA k : ci[k] >= start /\ ci[k] < end)
        slice == [j \in 1..Len(kept) |->
                    IF comb[kept[j]] = Ch.tab THEN Ch.space ELSE comb[kept[j]]]
    IN  [start0 |-> start0, end0 |-> end0, start |-> start, end |-> end,
         slice |-> slice,
         prefix |-> start > 0, suffix |-> end < len(comb), line |-> comb]

\* format!("{}{}{}", prefix, snippet, suffix): the string the scan returns
snippet_string(sn) ==
    (IF sn.prefix THEN <<46, 46, 46>> ELSE <<>>) \o sn.slice
        \o (IF sn.suffix THEN <<46, 46, 46>> ELSE <<>>)

MatchInit ==
    /\ show_snippets \in BOOLEAN
    /\ search_text \in Needles
    /\ snippet_chars \in (IF show_snippets THEN 0..MaxSnippetChars ELSE {120})
    /\ overlap = <<>>
    /\ combined = <<>>
    /\ text = <<>>
    /\ nlines = 0
    /\ decode_failed = FALSE
    /\ result = "running"
    /\ snippet = NoSnippet
    /\ pc = "scan"
    /\ files_processed = 0
    /\ files_matched = 0
    /\ total_assets = 0
    /\ errors = 0
    /\ DispIdle /\ NormIdle /\ AssetsIdle /\ ArgsIdle /\ OpenIdle /\ ModesIdle

CanRead(line) == nlines < MaxLines /\ Len(text) + Len(line) <= MaxTextLen

\* main.rs 112-133: one iteration of the loop of file_contains_case_insensitive
ContainsLine ==
    /\ pc = "scan" /\ ~show_snippets /\ result = "running"
    /\ \E line \in Lines :
        /\ CanRead(line)
        /\ combined' = overlap \o line
        /\ text' = text \o line
        /\ nlines' = nlines + 1
        /\ IF contains_test(overlap \o line, search_text)
           THEN /\ result' = "Ok(true)"
                /\ pc' = "count"
                /\ UNCHANGED overlap
           ELSE /\ overlap' = keep_overlap(overlap \o line, len(search_text))
                /\ UNCHANGED <<result, pc>>
    /\ UNCHANGED <<show_snippets, search_text, snippet_chars, decode_failed, snippet>>
    /\ UNCHANGED <<counter_vars, disp_vars, norm_vars, asset_vars, args_vars, open_vars, modes_vars>>

\* ContainsBadLine with the undecodable line skipped (`continue`) instead of
\* returned with `?`
ContainsBadLine_Skipped ==
    /\ pc = "scan" /\ ~show_snippets /\ result = "running"
    /\ nlines < MaxLines
    /\ nlines' = nlines + 1
    /\ decode_failed' = TRUE
    /\ UNCHANGED <<show_snippets, search_text, snippet_chars, overlap, combined,
                   text, snippet, result, pc>>
    /\ UNCHANGED <<counter_vars, disp_vars, norm_vars, asset_vars, args_vars, open_vars, modes_vars>>

\* main.rs 113: `line?` on a line that is not UTF-8
ContainsBadLine ==
    /\ pc = "scan" /\ ~show_snippets /\ result = "running"
    /\ nlines < MaxLines
    /\ nlines' = nlines + 1
    /\ decode_failed' = TRUE
    /\ result' = "Err"
    /\ pc' = "count"
    /\ UNCHANGED <<show_snippets, search_text, snippet_chars, overlap, combined,
                   text, snippet>>
    /\ UNCHANGED <<counter_vars, disp_vars, norm_vars, asset_vars, args_vars, open_vars, modes_vars>>

\* main.rs 135: the reader is exhausted
ContainsEof ==
    /\ pc = "scan" /\ ~show_snippets /\ result = "running"
    /\ result' = "Ok(false)"
    /\ pc' = "count"
    /\ UNCHANGED <<show_snippets, search_text, snippet_chars, overlap, combined,
                   text, nlines, decode_failed, snippet>>
    /\ UNCHANGED <<counter_vars, disp_vars, norm_vars, asset_vars, args_vars, open_vars, modes_vars>>

\* main.rs 174-214: one iteration of the loop of file_snippet_case_insensitive
SnippetLine ==
    /\ pc = "scan" /\ show_snippets /\ result = "running"
    /\ \E line \in Lines :
        /\ CanRead(line)
        /\ combined' = overlap \o line
        /\ text' = text \o line
        /\ nlines' = nlines + 1
        /\ IF snippet_test(overlap \o line, search_text)
           THEN /\ result' = "Ok(Some)"
                /\ snippet' = make_snippet(overlap \o line, search_text, snippet_chars)
                /\ pc' = "count"
                /\ UNCHANGED overlap
           ELSE /\ overlap' = keep_overlap(overlap \o line,
                                           len(to_ascii_lowercase(search_text)))
                /\ UNCHANGED <<result, snippet, pc>>
    /\ UNCHANGED <<show_snippets, search_text, snippet_chars, decode_failed>>
    /\ UNCHANGED <<counter_vars, disp_vars, norm_vars, asset_vars, args_vars, open_vars, modes_vars>>

\* main.rs 175: `line?` on a line that is not UTF-8
SnippetBadLine ==
    /\ pc = "scan" /\ show_snippets /\ result = "running"
    /\ nlines < MaxLines
    /\ nlines' = nlines + 1
    /\ decode_failed' = TRUE
    /\ result' = "Err"
    /\ pc' = "count"
    /\ UNCHANGED <<show_snippets, search_text, snippet_chars, overlap, combined,
                   text, snippet>>
    /\ UNCHANGED <<counter_vars, disp_vars, norm_vars, asset_vars, args_vars, open_vars, modes_vars>>

\* main.rs 216: the reader is exhausted
SnippetEof ==
    /\ pc = "scan" /\ show_snippets /\ result = "running"
    /\ result' = "Ok(None)"
    /\ pc' = "count"
    /\ UNCHANGED <<show_snippets, search_text, snippet_chars, overlap, combined,
                   text, nlines, decode_failed, snippet>>
    /\ UNCHANGED <<counter_vars, disp_vars, norm_vars, asset_vars, args_vars, open_vars, modes_vars>>

\* main.rs 650-660 and 663-674: the closure's match on the scan's result
CountResult ==
    /\ pc = "count"
    /\ files_matched' = IF result \in {"Ok(true)", "Ok(Some)"}
                        THEN files_matched + 1 ELSE files_matched
    /\ errors' = IF result = "Err" THEN errors + 1 ELSE errors
    /\ pc' = "processed"
    /\ UNCHANGED <<files_processed, total_assets>>
    /\ UNCHANGED <<show_snippets, search_text, snippet_chars, overlap, combined,
                   text, nlines, decode_failed, result, snippet>>
    /\ UNCHANGED <<disp_vars, norm_vars, asset_vars, args_vars, open_vars, modes_vars>>

\* main.rs 677: files_processed.fetch_add(1)
CountProcessed ==
    /\ pc = "processed"
    /\ files_processed' = files_processed + 1
    /\ pc' = "done"
    /\ UNCHANGED <<files_matched, total_assets, errors>>
    /\ UNCHANGED <<show_snippets, search_text, snippet_chars, overlap, combined,
                   text, nlines, decode_failed, result, snippet>>
    /\ UNCHANGED <<disp_vars, norm_vars, asset_vars, args_vars, open_vars, modes_vars>>

MatchNext ==
    \/ ContainsLine
    \/ ContainsBadLine
    \/ ContainsEof
    \/ SnippetLine
    \/ SnippetBadLine
    \/ SnippetEof
    \/ CountResult
    \/ CountProcessed

SpecMatch == MatchInit /\ [][MatchNext]_vars


\* ------------------------------------------------------ parallel dispatch
Files == 1..NumFiles
Workers == 1..NumWorkers
Modes == {"contains", "snippet", "list_assets"}
\* The max_file_size_mb values a configuration may hold.
ConfigMb == {None, Some(0), Some(1)}

\* main.rs 485-489: the configured limit in megabytes
max_file_size_mb_of(cfg) ==
    LET nonzero == IF cfg = None THEN None
                   ELSE IF cfg[1] = 0 THEN None ELSE cfg
    IN  IF nonzero = None THEN Some(100) ELSE nonzero

\* main.rs 491: the limit in bytes
max_file_size_bytes_of(cfg) ==
    LET mb == max_file_size_mb_of(cfg)
    IN  IF mb = None THEN None ELSE Some(mb[1] * 1024 * 1024)

\* What a scan may meet on disk: whether fs::metadata and File::open succeed,
\* the on-disk size, and what reading the content yields: None for an error,
\* or the number of hits (0 or 1 in contains and snippet mode, the number of
\* listed assets in list-assets mode).
ScanInputs(max_size_bytes, m) ==
    [metadata_ok : BOOLEAN,
     open_ok : BOOLEAN,
     size : IF max_size_bytes = None THEN {0, 1}
            ELSE {max_size_bytes[1], max_size_bytes[1] + 1},
     read : {None} \cup {Some(h) : h \in 0..(IF m = "list_assets" THEN MaxAssets ELSE 1)}]

NotScanned == [ret |-> "-", hits |-> 0, opened |-> FALSE, oversize |-> FALSE]

\* Whether the file's on-disk size exceeds the threshold that is set.
Oversize(max_size_bytes, in) ==
    max_size_bytes # None /\ in.metadata_ok /\ in.size > max_size_bytes[1]

\* scan_file with the size looked at only after the file was opened
scan_file_SizeCheckAfterOpen(max_size_bytes, in) ==
    IF ~in.open_ok
    THEN [ret |-> "Err", hits |-> 0, opened |-> FALSE]
    ELSE IF max_size_bytes # None /\ ~in.metadata_ok
    THEN [ret |-> "Err", hits |-> 0, opened |-> TRUE]
    ELSE IF max_size_bytes # None /\ in.size > max_size_bytes[1]
    THEN [ret |-> "Ok", hits |-> 0, opened |-> TRUE]
    ELSE IF in.read = None
    THEN [ret |-> "Err", hits |-> 0, opened |-> TRUE]
    ELSE [ret |-> "Ok", hits |-> in.read[1], opened |-> TRUE]

\* main.rs 84-93, 145-154, 249-258 and what follows them: the size check made
\* before the file is opened, the open, and the read. `ret` is "Ok" or "Err";
\* with "Ok", `hits` tells Ok(true) / Ok(Some) / a non-empty list (hits > 0)
\* from Ok(false) / Ok(None) / an empty list (hits = 0).
scan_file(max_size_bytes, in) ==
    IF max_size_bytes # None /\ ~in.metadata_ok
    THEN [ret |-> "Err", hits |-> 0, opened |-> FALSE]
    ELSE IF max_size_bytes # None /\ in.size > max_size_bytes[1]
    THEN [ret |-> "Ok", hits |-> 0, opened |-> FALSE]
    ELSE IF ~in.open_ok
    THEN [ret |-> "Err", hits |-> 0, opened |-> FALSE]
    ELSE IF in.read = None
    THEN [ret |-> "Err", hits |-> 0, opened |-> TRUE]
    ELSE [ret |-> "Ok", hits |-> in.read[1], opened |-> TRUE]

Init ==
    /\ mode \in Modes
    /\ \E cfg \in ConfigMb : max_file_size_bytes = max_file_size_bytes_of(cfg)
    /\ interrupted = FALSE
    /\ search_result = "Ok"
    /\ status = [f \in Files |-> "pending"]
    /\ scan = [w \in Workers |-> NotScanned]
    /\ outcomes = [err |-> 0, hit |-> 0, oversize |-> 0]
    /\ wpc = [w \in Workers |-> "idle"]
    /\ wfile = [w \in Workers |-> 0]
    /\ main_pc = "par_iter"
    /\ was_interrupted = FALSE
    /\ exit_code = 0
    /\ files_processed = 0
    /\ files_matched = 0
    /\ total_assets = 0
    /\ errors = 0
    /\ MatchIdle /\ NormIdle /\ AssetsIdle /\ ArgsIdle /\ OpenIdle /\ ModesIdle

\* main.rs 528-533: the Ctrl+C handler raises the flag
Interrupt ==
    /\ main_pc = "par_iter"
    /\ ~interrupted
    /\ interrupted' = TRUE
    /\ UNCHANGED <<mode, max_file_size_bytes, search_result, status, scan, outcomes,
                   wpc, wfile,
                   main_pc, was_interrupted, exit_code>>
    /\ UNCHANGED <<counter_vars, match_vars, norm_vars, asset_vars, args_vars, open_vars, modes_vars>>

\* main.rs 617: try_for_each hands a worker the next file; once a closure has
\* returned Err it hands out no further one
Dispatch(w) ==
    /\ main_pc = "par_iter"
    /\ wpc[w] = "idle"
    /\ search_result = "Ok"
    /\ \E f \in Files :
        /\ status[f] = "pending"
        /\ status' = [status EXCEPT ![f] = "taken"]
        /\ wfile' = [wfile EXCEPT ![w] = f]
    /\ wpc' = [wpc EXCEPT ![w] = "check"]
    /\ UNCHANGED <<mode, max_file_size_bytes, interrupted, search_result, scan, outcomes,
                   main_pc, was_interrupted, exit_code>>
    /\ UNCHANGED <<counter_vars, match_vars, norm_vars, asset_vars, args_vars, open_vars, modes_vars>>

\* CheckInterrupted with the flag not looked at
CheckInterrupted_Unchecked(w) ==
    /\ wpc[w] = "check"
    /\ status' = [status EXCEPT ![wfile[w]] = "scanning"]
    /\ wpc' = [wpc EXCEPT ![w] = "scan"]
    /\ UNCHANGED <<mode, max_file_size_bytes, interrupted, search_result, scan, outcomes,
                   wfile,
                   main_pc, was_interrupted, exit_code>>
    /\ UNCHANGED <<counter_vars, match_vars, norm_vars, asset_vars, args_vars, open_vars, modes_vars>>

\* main.rs 618-620: the closure's check of the flag before it scans
CheckInterrupted(w) ==
    /\ wpc[w] = "check"
    /\ IF interrupted
       THEN /\ status' = [status EXCEPT ![wfile[w]] = "cancelled"]
            /\ search_result' = "Err"
            /\ wpc' = [wpc EXCEPT ![w] = "idle"]
            /\ wfile' = [wfile EXCEPT ![w] = 0]
       ELSE /\ status' = [status EXCEPT ![wfile[w]] = "scanning"]
            /\ wpc' = [wpc EXCEPT ![w] = "scan"]
            /\ UNCHANGED <<search_result, wfile>>
    /\ UNCHANGED <<mode, max_file_size_bytes, interrupted, scan, outcomes, main_pc,
                   was_interrupted, exit_code>>
    /\ UNCHANGED <<counter_vars, match_vars, norm_vars, asset_vars, args_vars, open_vars, modes_vars>>

\* main.rs 628, 650, 663: the call of the mode's scan function
ScanFile(w) ==
    /\ wpc[w] = "scan"
    /\ \E in \in ScanInputs(max_file_size_bytes, mode) :
        LET r == scan_file(max_file_size_bytes, in) IN
        /\ scan' = [scan EXCEPT ![w] =
                        [ret |-> r.ret, hits |-> r.hits, opened |-> r.opened,
                         oversize |-> Oversize(max_file_size_bytes, in)]]
        /\ outcomes' =
              [err |-> outcomes.err + (IF r.ret = "Err" THEN 1 ELSE 0),
               hit |-> outcomes.hit + (IF r.ret = "Ok" /\ r.hits > 0 THEN 1 ELSE 0),
               oversize |-> outcomes.oversize
                              + (IF Oversize(max_file_size_bytes, in) THEN 1 ELSE 0)]
    /\ wpc' = [wpc EXCEPT ![w] = "count"]
    /\ UNCHANGED <<mode, max_file_size_bytes, interrupted, search_result, status, wfile,
                   main_pc, was_interrupted, exit_code>>
    /\ UNCHANGED <<counter_vars, match_vars, norm_vars, asset_vars, args_vars, open_vars, modes_vars>>

\* RecordResult with a scan's error returned from the closure (as `?` would),
\* which ends try_for_each
RecordResult_ErrAborts(w) ==
    /\ wpc[w] = "count"
    /\ LET r == scan[w] IN
        /\ errors' = IF r.ret = "Err" THEN errors + 1 ELSE errors
        /\ files_matched' = IF r.ret = "Ok" /\ r.hits > 0
                            THEN files_matched + 1 ELSE files_matched
        /\ total_assets' = IF mode = "list_assets" /\ r.ret = "Ok" /\ r.hits > 0
                           THEN total_assets + r.hits ELSE total_assets
        /\ IF r.ret = "Err"
           THEN /\ search_result' = "Err"
                /\ status' = [status EXCEPT ![wfile[w]] = "cancelled"]
                /\ wpc' = [wpc EXCEPT ![w] = "idle"]
                /\ wfile' = [wfile EXCEPT ![w] = 0]
           ELSE /\ wpc' = [wpc EXCEPT ![w] = "processed"]
                /\ UNCHANGED <<search_result, status, wfile>>
    /\ scan' = [scan EXCEPT ![w] = NotScanned]
    /\ UNCHANGED files_processed
    /\ UNCHANGED <<mode, max_file_size_bytes, interrupted, outcomes, main_pc,
                   was_interrupted, exit_code>>
    /\ UNCHANGED <<match_vars, norm_vars, asset_vars, args_vars, open_vars, modes_vars>>

\* RecordResult with the snippet mode's Err arm left empty
RecordResult_ErrDropped(w) ==
    /\ wpc[w] = "count"
    /\ LET r == scan[w] IN
        /\ errors' = IF r.ret = "Err" /\ mode # "snippet" THEN errors + 1 ELSE errors
        /\ files_matched' = IF r.ret = "Ok" /\ r.hits > 0
                            THEN files_matched + 1 ELSE files_matched
        /\ total_assets' = IF mode = "list_assets" /\ r.ret = "Ok" /\ r.hits > 0
                           THEN total_assets + r.hits ELSE total_assets
    /\ scan' = [scan EXCEPT ![w] = NotScanned]
    /\ wpc' = [wpc EXCEPT ![w] = "processed"]
    /\ UNCHANGED files_processed
    /\ UNCHANGED <<mode, max_file_size_bytes, interrupted, search_result, status,
                   outcomes, wfile, main_pc, was_interrupted, exit_code>>
    /\ UNCHANGED <<match_vars, norm_vars, asset_vars, args_vars, open_vars, modes_vars>>

\* main.rs 629-647, 651-660, 664-674: the closure's match on the scan's result
RecordResult(w) ==
    /\ wpc[w] = "count"
    /\ LET r == scan[w] IN
        /\ errors' = IF r.ret = "Err" THEN errors + 1 ELSE errors
        /\ files_matched' = IF r.ret = "Ok" /\ r.hits > 0
                            THEN files_matched + 1 ELSE files_matched
        /\ total_assets' = IF mode = "list_assets" /\ r.ret = "Ok" /\ r.hits > 0
                           THEN total_assets + r.hits ELSE total_assets
    /\ scan' = [scan EXCEPT ![w] = NotScanned]
    /\ wpc' = [wpc EXCEPT ![w] = "processed"]
    /\ UNCHANGED files_processed
    /\ UNCHANGED <<mode, max_file_size_bytes, interrupted, search_result, status,
                   outcomes, wfile, main_pc, was_interrupted, exit_code>>
    /\ UNCHANGED <<match_vars, norm_vars, asset_vars, args_vars, open_vars, modes_vars>>

\* IncProcessed as a load followed by a store: of two increments under way at
\* once the first is overwritten
IncProcessed_LostUpdate(w) ==
    /\ wpc[w] = "processed"
    /\ files_processed' =
           IF \E v \in Workers : v # w /\ wpc[v] = "processed"
           THEN files_processed ELSE files_processed + 1
    /\ status' = [status EXCEPT ![wfile[w]] = "processed"]
    /\ wpc' = [wpc EXCEPT ![w] = "recheck"]
    /\ UNCHANGED <<files_matched, total_assets, errors>>
    /\ UNCHANGED <<mode, max_file_size_bytes, interrupted, search_result, scan, outcomes,
                   wfile,
                   main_pc, was_interrupted, exit_code>>
    /\ UNCHANGED <<match_vars, norm_vars, asset_vars, args_vars, open_vars, modes_vars>>

\* main.rs 677: files_processed.fetch_add(1)
IncProcessed(w) ==
    /\ wpc[w] = "processed"
    /\ files_processed' = files_processed + 1
    /\ status' = [status EXCEPT ![wfile[w]] = "processed"]
    /\ wpc' = [wpc EXCEPT ![w] = "recheck"]
    /\ UNCHANGED <<files_matched, total_assets, errors>>
    /\ UNCHANGED <<mode, max_file_size_bytes, interrupted, search_result, scan, outcomes,
                   wfile,
                   main_pc, was_interrupted, exit_code>>
    /\ UNCHANGED <<match_vars, norm_vars, asset_vars, args_vars, open_vars, modes_vars>>

\* main.rs 680-684: the closure's result
Recheck(w) ==
    /\ wpc[w] = "recheck"
    /\ search_result' = IF interrupted THEN "Err" ELSE search_result
    /\ wpc' = [wpc EXCEPT ![w] = "idle"]
    /\ wfile' = [wfile EXCEPT ![w] = 0]
    /\ UNCHANGED <<mode, max_file_size_bytes, interrupted, status, scan, outcomes,
                   main_pc, was_interrupted, exit_code>>
    /\ UNCHANGED <<counter_vars, match_vars, norm_vars, asset_vars, args_vars, open_vars, modes_vars>>

\* Summary with the exit(130) of an interrupted run left out
Summary_ExitZero ==
    /\ main_pc = "par_iter"
    /\ \A w \in Workers : wpc[w] = "idle"
    /\ search_result = "Err" \/ \A f \in Files : status[f] # "pending"
    /\ was_interrupted' = (interrupted \/ search_result = "Err")
    /\ exit_code' = 0
    /\ main_pc' = "exited"
    /\ UNCHANGED <<mode, max_file_size_bytes, interrupted, search_result, status, scan, outcomes,
                   wpc, wfile>>
    /\ UNCHANGED <<counter_vars, match_vars, norm_vars, asset_vars, args_vars, open_vars, modes_vars>>

\* main.rs 685-718: try_for_each returns once every worker is idle and no file
\* is left to hand out; main prints the summary and exits
Summary ==
    /\ main_pc = "par_iter"
    /\ \A w \in Workers : wpc[w] = "idle"
    /\ search_result = "Err" \/ \A f \in Files : status[f] # "pending"
    /\ was_interrupted' = (interrupted \/ search_result = "Err")
    /\ exit_code' = IF interrupted \/ search_result = "Err" THEN 130 ELSE 0
    /\ main_pc' = "exited"
    /\ UNCHANGED <<mode, max_file_size_bytes, interrupted, search_result, status, scan, outcomes,
                   wpc, wfile>>
    /\ UNCHANGED <<counter_vars, match_vars, norm_vars, asset_vars, args_vars, open_vars, modes_vars>>

Worker(w) ==
    \/ Dispatch(w)
    \/ CheckInterrupted(w)
    \/ ScanFile(w)
    \/ RecordResult(w)
    \/ IncProcessed(w)
    \/ Recheck(w)

Next ==
    \/ Interrupt
    \/ \E w \in Workers : Worker(w)
    \/ Summary

Spec == Init /\ [][Next]_vars

\* The pool runs every worker that has a step to take, and main goes on once
\* try_for_each has returned.
FairSpec == Spec /\ (\A w \in Workers : WF_vars(Worker(w))) /\ WF_vars(Summary)

\* ------------------------------------------------------------ SpecNorm
NormInit ==
    /\ raw \in RawValues
    /\ norm_once = None
    /\ norm_twice = None
    /\ files_processed = 0
    /\ files_matched = 0
    /\ total_assets = 0
    /\ errors = 0
    /\ MatchIdle /\ DispIdle /\ AssetsIdle /\ ArgsIdle /\ OpenIdle /\ ModesIdle

\* main.rs 308, 327, 343: a raw value is normalized
Normalize ==
    /\ norm_once = None
    /\ norm_once' = Some(normalize_asset_path(raw))
    /\ UNCHANGED <<raw, norm_twice>>
    /\ UNCHANGED <<match_vars, counter_vars, disp_vars, asset_vars, args_vars, open_vars, modes_vars>>

\* The normalized value is normalized again.
Renormalize ==
    /\ norm_once # None
    /\ norm_twice = None
    /\ norm_twice' = Some(normalize_asset_path(norm_once[1]))
    /\ UNCHANGED <<raw, norm_once>>
    /\ UNCHANGED <<match_vars, counter_vars, disp_vars, asset_vars, args_vars, open_vars, modes_vars>>

NormNext ==
    \/ Normalize
    \/ Renormalize

SpecNorm == NormInit /\ [][NormNext]_vars

\* --------------------------------------------------------- list-assets mode
\* main.rs 277-282
asset_exts ==
    {<<109, 112, 52>>,   \* "mp4"
     <<109, 111, 118>>,   \* "mov"
     <<109, 120, 102>>,   \* "mxf"
     <<109, 116, 115>>,   \* "mts"
     <<109, 50, 116, 115>>,   \* "m2ts"
     <<97, 118, 105>>,   \* "avi"
     <<109, 107, 118>>,   \* "mkv"
     <<119, 109, 118>>,   \* "wmv"
     <<109, 52, 118>>,   \* "m4v"
     <<51, 103, 112>>,   \* "3gp"
     <<119, 97, 118>>,   \* "wav"
     <<109, 112, 51>>,   \* "mp3"
     <<97, 97, 99>>,   \* "aac"
     <<109, 52, 97>>,   \* "m4a"
     <<97, 105, 102>>,   \* "aif"
     <<97, 105, 102, 102>>,   \* "aiff"
     <<102, 108, 97, 99>>,   \* "flac"
     <<111, 103, 103>>,   \* "ogg"
     <<112, 110, 103>>,   \* "png"
     <<106, 112, 103>>,   \* "jpg"
     <<106, 112, 101, 103>>,   \* "jpeg"
     <<116, 105, 102>>,   \* "tif"
     <<116, 105, 102, 102>>,   \* "tiff"
     <<98, 109, 112>>,   \* "bmp"
     <<103, 105, 102>>,   \* "gif"
     <<112, 115, 100>>,   \* "psd"
     <<97, 105>>,   \* "ai"
     <<115, 118, 103>>,   \* "svg"
     <<100, 110, 103>>,   \* "dng"
     <<99, 114, 50>>,   \* "cr2"
     <<110, 101, 102>>,   \* "nef"
     <<97, 114, 119>>,   \* "arw"
     <<112, 114, 102, 112, 115, 101, 116>>,   \* "prfpset"
     <<109, 111, 103, 114, 116>>}   \* "mogrt"

\* main.rs 291: the names is_path_name accepts, in lower case
path_names ==
    {<<97, 98, 115, 111, 108, 117, 116, 101, 112, 97, 116, 104>>,   \* "absolutepath"
     <<102, 105, 108, 101, 112, 97, 116, 104>>,   \* "filepath"
     <<112, 97, 116, 104>>,   \* "path"
     <<114, 101, 108, 97, 116, 105, 118, 101, 112, 97, 116, 104>>,   \* "relativepath"
     <<114, 101, 108, 112, 97, 116, 104>>}   \* "relpath"

\* main.rs 290-292
is_path_name(n) == to_ascii_lowercase(n) \in path_names

\* The element names, attribute keys and raw values of the documents of
\* SpecAssets, and the filter terms.  The values are "a.mp4", "A.MP4",
\* "file:///b.png", "d/a.mp4", "a.txt", ".mp4", and "a?.mp4" with a
\* capital sigma (931) and with a final sigma (962) for the "?".
ElementNames ==
    {<<70, 105, 108, 101, 80, 97, 116, 104>>,   \* "FilePath"
     <<67, 108, 105, 112>>}   \* "Clip"

AttrKeys ==
    {<<97, 98, 115, 111, 108, 117, 116, 101, 80, 97, 116, 104>>,   \* "absolutePath"
     <<105, 100>>}   \* "id"

AssetValues ==
    {<<97, 46, 109, 112, 52>>,
     <<65, 46, 77, 80, 52>>,
     <<102, 105, 108, 101, 58, 47, 47, 47, 98, 46, 112, 110, 103>>,
     <<100, 47, 97, 46, 109, 112, 52>>,
     <<97, 46, 116, 120, 116>>,
     <<46, 109, 112, 52>>,
     <<97, 931, 46, 109, 112, 52>>,
     <<97, 962, 46, 109, 112, 52>>}
FilterTerms ==
    {<<97>>,   \* "a"
     <<112, 110, 103>>}   \* "png"

\* An attribute: its key and its unescaped value, None when the attribute
\* cannot be parsed or unescape_value fails.
Attrs == [key : AttrKeys, val : {None} \cup {Some(v) : v \in AssetValues}]

\* The attributes of an element of the documents of SpecAssets: none, or one.
AttrLists == {<<>>} \cup {<<a>> : a \in Attrs}

\* Path::file_name, as on Windows where the backslash separates components
\* (the values of SpecAssets have the same extension under Unix rules):
\* the last component, trailing separators dropped; None for "" and for "..".
RECURSIVE strip_trailing_separators(_)
strip_trailing_separators(p) ==
    IF p # <<>> /\ p[Len(p)] = 92
    THEN strip_trailing_separators(SubSeq(p, 1, Len(p) - 1)) ELSE p

file_name(p) ==
    LET q == strip_trailing_separators(p)
        seps == {i \in 1..Len(q) : q[i] = 92}
        last == IF seps = {} THEN 0 ELSE CHOOSE i \in seps : \A j \in seps : j <= i
        name == SubSeq(q, last + 1, Len(q))
    IN  IF name = <<>> \/ name = <<46, 46>> THEN None ELSE Some(name)

\* Path::extension: what follows the last dot of the file name; None when
\* there is no dot or the only dot starts the name.
extension(p) ==
    LET f == file_name(p) IN
    IF f = None THEN None
    ELSE LET name == f[1]
             dots == {i \in 1..Len(name) : name[i] = 46}
             last == CHOOSE i \in dots : \A j \in dots : j <= i
         IN  IF dots = {} \/ last = 1 THEN None
             ELSE Some(SubSeq(name, last + 1, Len(name)))

\* is_candidate with the test against the list of extensions left out
is_candidate_AnyExtension(val) == extension(normalize_asset_path(val)) # None

\* main.rs 309, 311: whether a raw value normalizes to a path that has an
\* extension, and a listed one
is_candidate(val) ==
    LET ext == extension(normalize_asset_path(val))
    IN  ext # None /\ to_ascii_lowercase(ext[1]) \in asset_exts

\* main.rs 308-313, 327-332, 343-348: one value is normalized, filtered by its
\* extension and deduplicated; acc holds `seen` and `assets`
harvest(val, acc) ==
    LET norm == normalize_asset_path(val)
        key == to_lowercase(norm)
    IN  IF is_candidate(val) /\ key \notin acc.seen
        THEN [seen |-> acc.seen \cup {key}, assets |-> Append(acc.assets, norm)]
        ELSE acc

\* main.rs 303-318, 322-337: the attributes of an element, in order
RECURSIVE harvest_attributes(_, _)
harvest_attributes(attrs, acc) ==
    IF attrs = <<>> THEN acc
    ELSE LET a == Head(attrs)
             next == IF is_path_name(a.key) /\ a.val # None
                     THEN harvest(a.val[1], acc) ELSE acc
         IN  harvest_attributes(Tail(attrs), next)

\* String's Ord: byte order, which is code point order
RECURSIVE LexLess(_, _)
LexLess(a, b) ==
    IF b = <<>> THEN FALSE
    ELSE IF a = <<>> THEN TRUE
    ELSE IF Head(a) # Head(b) THEN Head(a) < Head(b)
    ELSE LexLess(Tail(a), Tail(b))

\* sort_assets left out
sort_assets_Unsorted(list) == list

\* main.rs 363: assets.sort()
sort_assets(list) == SortSeq(list, LexLess)

AssetsInit ==
    /\ asset_filter \in {None} \cup {Some(t) : t \in FilterTerms}
    /\ want_text = FALSE
    /\ seen = {}
    /\ assets = <<>>
    /\ events_read = 0
    /\ last_tag = "none"
    /\ parse_failed = FALSE
    /\ returned = [state |-> "running", assets |-> <<>>]
    /\ listed = <<>>
    /\ xml_pc = "events"
    /\ files_processed = 0
    /\ files_matched = 0
    /\ total_assets = 0
    /\ errors = 0
    /\ MatchIdle /\ DispIdle /\ NormIdle /\ ArgsIdle /\ OpenIdle /\ ModesIdle

CanReadEvent == xml_pc = "events" /\ events_read < MaxEvents

\* main.rs 296-319: a start tag
EvStart ==
    /\ CanReadEvent
    /\ \E name \in ElementNames, attrs \in AttrLists :
        LET acc == harvest_attributes(attrs, [seen |-> seen, assets |-> assets]) IN
        /\ want_text' = IF is_path_name(name) THEN TRUE ELSE want_text
        /\ seen' = acc.seen
        /\ assets' = acc.assets
        /\ last_tag' = IF is_path_name(name) THEN "path_start" ELSE "other_start"
    /\ events_read' = events_read + 1
    /\ UNCHANGED <<asset_filter, parse_failed, returned, listed, xml_pc>>
    /\ UNCHANGED <<match_vars, counter_vars, disp_vars, norm_vars, args_vars, open_vars, modes_vars>>

\* main.rs 320-339: a self-closing tag
EvEmpty ==
    /\ CanReadEvent
    /\ \E attrs \in AttrLists :
        LET acc == harvest_attributes(attrs, [seen |-> seen, assets |-> assets]) IN
        /\ seen' = acc.seen
        /\ assets' = acc.assets
    /\ want_text' = FALSE
    /\ last_tag' = "empty"
    /\ events_read' = events_read + 1
    /\ UNCHANGED <<asset_filter, parse_failed, returned, listed, xml_pc>>
    /\ UNCHANGED <<match_vars, counter_vars, disp_vars, norm_vars, args_vars, open_vars, modes_vars>>

\* main.rs 340-352: text content; val is None when unescape fails
EvText ==
    /\ CanReadEvent
    /\ \E val \in {None} \cup {Some(v) : v \in AssetValues} :
        LET acc == IF want_text /\ val # None
                   THEN harvest(val[1], [seen |-> seen, assets |-> assets])
                   ELSE [seen |-> seen, assets |-> assets] IN
        /\ seen' = acc.seen
        /\ assets' = acc.assets
    /\ events_read' = events_read + 1
    /\ UNCHANGED <<asset_filter, want_text, last_tag, parse_failed, returned, listed,
                   xml_pc>>
    /\ UNCHANGED <<match_vars, counter_vars, disp_vars, norm_vars, args_vars, open_vars, modes_vars>>

\* main.rs 353-355: an end tag
EvEnd ==
    /\ CanReadEvent
    /\ want_text' = FALSE
    /\ last_tag' = "end"
    /\ events_read' = events_read + 1
    /\ UNCHANGED <<asset_filter, seen, assets, parse_failed, returned,
                   listed, xml_pc>>
    /\ UNCHANGED <<match_vars, counter_vars, disp_vars, norm_vars, args_vars, open_vars, modes_vars>>

\* main.rs 358: a comment, CDATA, declaration, processing instruction, doctype
EvOther ==
    /\ CanReadEvent
    /\ events_read' = events_read + 1
    /\ UNCHANGED <<asset_filter, want_text, seen, assets, last_tag,
                   parse_failed, returned, listed, xml_pc>>
    /\ UNCHANGED <<match_vars, counter_vars, disp_vars, norm_vars, args_vars, open_vars, modes_vars>>

\* main.rs 356, 363-364: the end of the document
EvEof ==
    /\ xml_pc = "events"
    /\ returned' = [state |-> "Ok", assets |-> sort_assets(assets)]
    /\ xml_pc' = "count"
    /\ UNCHANGED <<asset_filter, want_text, seen, assets, events_read,
                   last_tag, parse_failed, listed>>
    /\ UNCHANGED <<match_vars, counter_vars, disp_vars, norm_vars, args_vars, open_vars, modes_vars>>

\* EvErr with the parser's error returned to the caller
EvErr_Propagated ==
    /\ xml_pc = "events"
    /\ parse_failed' = TRUE
    /\ returned' = [state |-> "Err", assets |-> <<>>]
    /\ xml_pc' = "count"
    /\ UNCHANGED <<asset_filter, want_text, seen, assets, events_read,
                   last_tag, listed>>
    /\ UNCHANGED <<match_vars, counter_vars, disp_vars, norm_vars, args_vars, open_vars, modes_vars>>

\* main.rs 357, 363-364: the parser reports an error
EvErr ==
    /\ xml_pc = "events"
    /\ parse_failed' = TRUE
    /\ returned' = [state |-> "Ok", assets |-> sort_assets(assets)]
    /\ xml_pc' = "count"
    /\ UNCHANGED <<asset_filter, want_text, seen, assets, events_read,
                   last_tag, listed>>
    /\ UNCHANGED <<match_vars, counter_vars, disp_vars, norm_vars, args_vars, open_vars, modes_vars>>

\* main.rs 633: the assets the filter retains
retain(list, filt) ==
    IF filt = None THEN list
    ELSE SelectSeq(list, LAMBDA a :
            contains(to_ascii_lowercase(a), to_ascii_lowercase(filt[1])))

\* main.rs 628-647: the closure's match on the extractor's result
AssetsRecord ==
    /\ xml_pc = "count"
    /\ IF returned.state = "Ok"
       THEN LET kept == retain(returned.assets, asset_filter) IN
            /\ listed' = kept
            /\ total_assets' = total_assets + Len(kept)
            /\ files_matched' = IF kept # <<>> THEN files_matched + 1 ELSE files_matched
            /\ UNCHANGED errors
       ELSE /\ errors' = errors + 1
            /\ UNCHANGED <<listed, total_assets, files_matched>>
    /\ xml_pc' = "processed"
    /\ UNCHANGED files_processed
    /\ UNCHANGED <<asset_filter, want_text, seen, assets, events_read,
                   last_tag, parse_failed, returned>>
    /\ UNCHANGED <<match_vars, disp_vars, norm_vars, args_vars, open_vars, modes_vars>>

\* main.rs 677: files_processed.fetch_add(1)
AssetsProcessed ==
    /\ xml_pc = "processed"
    /\ files_processed' = files_processed + 1
    /\ xml_pc' = "done"
    /\ UNCHANGED <<files_matched, total_assets, errors>>
    /\ UNCHANGED <<asset_filter, want_text, seen, assets, events_read,
                   last_tag, parse_failed, returned, listed>>
    /\ UNCHANGED <<match_vars, disp_vars, norm_vars, args_vars, open_vars, modes_vars>>

AssetsNext ==
    \/ EvStart
    \/ EvEmpty
    \/ EvText
    \/ EvEnd
    \/ EvOther
    \/ EvEof
    \/ EvErr
    \/ AssetsRecord
    \/ AssetsProcessed

SpecAssets == AssetsInit /\ [][AssetsNext]_vars

\* ------------------------------------------- arguments and configuration
\* The search texts a command line or a configuration file may give: the empty
\* string, "a" and " a".
ArgTerms == {<<>>, <<97>>, <<32, 97>>}
\* The lines a prompt may read: "\n", " \n", "a\n" and " a \n".
StdinLines == {<<10>>, <<32, 10>>, <<97, 10>>, <<32, 97, 32, 10>>}
\* The sizes of the file the closure is called with: one byte around 1 MB and
\* around 100 MB.
FileSizes == {1048576, 1048577, 104857600, 104857601}
\* main.rs 16-29: the fields of Config the model follows
Configs == [search_text : {None} \cup {Some(t) : t \in ArgTerms},
            max_file_size_mb : ConfigMb]

ArgsInit ==
    /\ args_search_text \in {None} \cup {Some(t) : t \in ArgTerms}
    /\ config \in {None} \cup {Some(c) : c \in Configs}
    /\ list_assets \in BOOLEAN
    /\ args_show_snippets \in BOOLEAN
    /\ stdin_line \in {None} \cup {Some(l) : l \in StdinLines}
    /\ search_text_opt = None
    /\ required_search_text = None
    /\ scan_call = None
    /\ mode = "contains"
    /\ max_file_size_bytes = None
    /\ interrupted = FALSE
    /\ search_result = "Ok"
    /\ status = <<>>
    /\ scan = <<>>
    /\ outcomes = <<>>
    /\ wpc = <<>>
    /\ wfile = <<>>
    /\ main_pc = "merge"
    /\ was_interrupted = FALSE
    /\ exit_code = 0
    /\ files_processed = 0
    /\ files_matched = 0
    /\ total_assets = 0
    /\ errors = 0
    /\ MatchIdle /\ NormIdle /\ AssetsIdle /\ OpenIdle /\ ModesIdle

\* main.rs 384-386: the command line's search text, else the configuration's
MergeSearchText ==
    /\ main_pc = "merge"
    /\ search_text_opt' = IF args_search_text # None THEN args_search_text
                          ELSE IF config = None THEN None
                          ELSE config[1].search_text
    /\ main_pc' = "prompt"
    /\ UNCHANGED <<args_search_text, config, list_assets, args_show_snippets,
                   stdin_line, required_search_text, scan_call>>
    /\ UNCHANGED <<mode, max_file_size_bytes, interrupted, search_result, status,
                   scan, outcomes, wpc, wfile, was_interrupted, exit_code>>
    /\ UNCHANGED <<match_vars, counter_vars, norm_vars, asset_vars, open_vars, modes_vars>>

\* main.rs 388-411: outside list-assets mode a search text given by neither
\* source is read from standard input, trimmed, and refused when empty
PromptSearchText ==
    /\ main_pc = "prompt"
    /\ IF ~list_assets /\ search_text_opt = None
       THEN IF stdin_line = None \/ trim(stdin_line[1]) = <<>>
            THEN /\ main_pc' = "exited"
                 /\ exit_code' = 1
                 /\ UNCHANGED search_text_opt
            ELSE /\ search_text_opt' = Some(trim(stdin_line[1]))
                 /\ main_pc' = "require"
                 /\ UNCHANGED exit_code
       ELSE /\ main_pc' = "require"
            /\ UNCHANGED <<search_text_opt, exit_code>>
    /\ UNCHANGED <<args_search_text, config, list_assets, args_show_snippets,
                   stdin_line, required_search_text, scan_call>>
    /\ UNCHANGED <<mode, max_file_size_bytes, interrupted, search_result, status,
                   scan, outcomes, wpc, wfile, was_interrupted>>
    /\ UNCHANGED <<match_vars, counter_vars, norm_vars, asset_vars, open_vars, modes_vars>>

\* main.rs 413-417: the search text the search modes require; `expect` panics
\* (exit code 101) on None
RequireSearchText ==
    /\ main_pc = "require"
    /\ IF list_assets
       THEN /\ required_search_text' = None
            /\ main_pc' = "limits"
            /\ UNCHANGED exit_code
       ELSE IF search_text_opt = None
       THEN /\ main_pc' = "exited"
            /\ exit_code' = 101
            /\ UNCHANGED required_search_text
       ELSE /\ required_search_text' = search_text_opt
            /\ main_pc' = "limits"
            /\ UNCHANGED exit_code
    /\ UNCHANGED <<args_search_text, config, list_assets, args_show_snippets,
                   stdin_line, search_text_opt, scan_call>>
    /\ UNCHANGED <<mode, max_file_size_bytes, interrupted, search_result, status,
                   scan, outcomes, wpc, wfile, was_interrupted>>
    /\ UNCHANGED <<match_vars, counter_vars, norm_vars, asset_vars, open_vars, modes_vars>>

\* main.rs 485-491 and 608: the size threshold in bytes and the mode
ResolveMaxFileSize ==
    /\ main_pc = "limits"
    /\ max_file_size_bytes' =
           max_file_size_bytes_of(IF config = None THEN None
                                  ELSE config[1].max_file_size_mb)
    /\ mode' = IF list_assets THEN "list_assets"
               ELSE IF args_show_snippets THEN "snippet" ELSE "contains"
    /\ main_pc' = "closure"
    /\ UNCHANGED args_vars
    /\ UNCHANGED <<interrupted, search_result, status, scan, outcomes, wpc, wfile,
                   was_interrupted, exit_code>>
    /\ UNCHANGED <<match_vars, counter_vars, norm_vars, asset_vars, open_vars, modes_vars>>

\* main.rs 627-628, 648-650, 661-663: the scan function the closure calls for
\* a file and the search term it hands it; main.rs 84-90, 145-151, 249-255:
\* whether that scan skips the file as over the threshold
CallScan ==
    /\ main_pc = "closure"
    /\ \E size \in FileSizes :
         scan_call' = Some([fn |-> IF mode = "list_assets"
                                   THEN "extract_assets_from_prproj"
                                   ELSE IF mode = "snippet"
                                   THEN "file_snippet_case_insensitive"
                                   ELSE "file_contains_case_insensitive",
                            term |-> IF mode = "list_assets" THEN None
                                     ELSE required_search_text,
                            size |-> size,
                            oversize |-> /\ max_file_size_bytes # None
                                         /\ size > max_file_size_bytes[1]])
    /\ main_pc' = "called"
    /\ UNCHANGED <<args_search_text, config, list_assets, args_show_snippets,
                   stdin_line, search_text_opt, required_search_text>>
    /\ UNCHANGED <<mode, max_file_size_bytes, interrupted, search_result, status,
                   scan, outcomes, wpc, wfile, was_interrupted, exit_code>>
    /\ UNCHANGED <<match_vars, counter_vars, norm_vars, asset_vars, open_vars, modes_vars>>

ArgsNext ==
    \/ MergeSearchText
    \/ PromptSearchText
    \/ RequireSearchText
    \/ ResolveMaxFileSize
    \/ CallScan

SpecArgs == ArgsInit /\ [][ArgsNext]_vars

\* ------------------------------------------------- opening a project file
\* The byte values a file is made of: 0x1F, 0x8B and one other byte.
ByteValues == {31, 139, 60}
FileContents == SeqsUpTo(ByteValues, MaxFileBytes)

OpenInit ==
    /\ file_bytes \in FileContents
    /\ file_pos = 0
    /\ magic_n = 0
    /\ magic = <<0, 0>>
    /\ reader = "none"
    /\ stream = <<>>
    /\ open_pc = "open"
    /\ files_processed = 0
    /\ files_matched = 0
    /\ total_assets = 0
    /\ errors = 0
    /\ MatchIdle /\ DispIdle /\ NormIdle /\ AssetsIdle /\ ArgsIdle /\ ModesIdle

\* main.rs 93, 155, 258: fs::File::open(path)?
OpenFile ==
    /\ open_pc = "open"
    /\ \E ok \in BOOLEAN :
        IF ok THEN /\ open_pc' = "peek"
                   /\ UNCHANGED reader
              ELSE /\ open_pc' = "done"
                   /\ reader' = "Err"
    /\ UNCHANGED <<file_bytes, file_pos, magic_n, magic, stream>>
    /\ UNCHANGED <<match_vars, counter_vars, disp_vars, norm_vars, asset_vars, args_vars, modes_vars>>

\* main.rs 94-95, 156-157, 259-260: file.read(&mut magic)? fills the buffer
\* with the bytes at the position, up to two, and moves the position past them
PeekMagic ==
    /\ open_pc = "peek"
    /\ \E ok \in BOOLEAN :
        IF ok
        THEN LET n == Min(2, Len(file_bytes) - file_pos) IN
             /\ magic_n' = n
             /\ magic' = [i \in 1..2 |-> IF i <= n THEN file_bytes[file_pos + i]
                                         ELSE magic[i]]
             /\ file_pos' = file_pos + n
             /\ open_pc' = "seek"
             /\ UNCHANGED reader
        ELSE /\ open_pc' = "done"
             /\ reader' = "Err"
             /\ UNCHANGED <<magic_n, magic, file_pos>>
    /\ UNCHANGED <<file_bytes, stream>>
    /\ UNCHANGED <<match_vars, counter_vars, disp_vars, norm_vars, asset_vars, args_vars, modes_vars>>

\* Rewind with the seek left out
Rewind_Skipped ==
    /\ open_pc = "seek"
    /\ \E ok \in BOOLEAN :
        IF ok THEN /\ open_pc' = "wrap"
                   /\ UNCHANGED <<file_pos, reader>>
              ELSE /\ open_pc' = "done"
                   /\ reader' = "Err"
                   /\ UNCHANGED file_pos
    /\ UNCHANGED <<file_bytes, magic_n, magic, stream>>
    /\ UNCHANGED <<match_vars, counter_vars, disp_vars, norm_vars, asset_vars, args_vars, modes_vars>>

\* main.rs 96, 158, 261: file.seek(SeekFrom::Start(0))?
Rewind ==
    /\ open_pc = "seek"
    /\ \E ok \in BOOLEAN :
        IF ok THEN /\ file_pos' = 0
                   /\ open_pc' = "wrap"
                   /\ UNCHANGED reader
              ELSE /\ open_pc' = "done"
                   /\ reader' = "Err"
                   /\ UNCHANGED file_pos
    /\ UNCHANGED <<file_bytes, magic_n, magic, stream>>
    /\ UNCHANGED <<match_vars, counter_vars, disp_vars, norm_vars, asset_vars, args_vars, modes_vars>>

\* main.rs 98-104, 160-165, 263-268: the reader is a GzDecoder over the file or
\* the file itself; either reads the file from its position on
WrapReader ==
    /\ open_pc = "wrap"
    /\ reader' = IF magic_n = 2 /\ magic = <<31, 139>> THEN "gzip" ELSE "plain"
    /\ stream' = SubSeq(file_bytes, file_pos + 1, Len(file_bytes))
    /\ open_pc' = "done"
    /\ UNCHANGED <<file_bytes, file_pos, magic_n, magic>>
    /\ UNCHANGED <<match_vars, counter_vars, disp_vars, norm_vars, asset_vars, args_vars, modes_vars>>

OpenNext ==
    \/ OpenFile
    \/ PeekMagic
    \/ Rewind
    \/ WrapReader

SpecOpen == OpenInit /\ [][OpenNext]_vars

\* ------------------------------------------ both search modes on one file
\* The files of SpecModes: at most MaxLines lines of MaxTextLen characters in
\* all.
RECURSIVE Concat_lines(_)
Concat_lines(ls) == IF ls = <<>> THEN <<>> ELSE Head(ls) \o Concat_lines(Tail(ls))
FileLines == {ls \in SeqsUpTo(Lines, MaxLines) : Len(Concat_lines(ls)) <= MaxTextLen}

\* main.rs 106-135: the loop of file_contains_case_insensitive over the lines
\* left, ov being the carry-over
RECURSIVE file_contains_case_insensitive(_, _, _)
file_contains_case_insensitive(ls, ov, needle) ==
    IF ls = <<>> THEN FALSE
    ELSE IF contains_test(ov \o Head(ls), needle) THEN TRUE
    ELSE file_contains_case_insensitive(
             Tail(ls), keep_overlap(ov \o Head(ls), len(needle)), needle)

\* main.rs 166-216: the loop of file_snippet_case_insensitive over the lines
\* left, ov being the carry-over
RECURSIVE file_snippet_case_insensitive(_, _, _, _)
file_snippet_case_insensitive(ls, ov, needle, chars) ==
    IF ls = <<>> THEN None
    ELSE IF snippet_test(ov \o Head(ls), needle)
    THEN Some(snippet_string(make_snippet(ov \o Head(ls), needle, chars)))
    ELSE file_snippet_case_insensitive(
             Tail(ls),
             keep_overlap(ov \o Head(ls), len(to_ascii_lowercase(needle))),
             needle, chars)

ModesInit ==
    /\ file_lines \in FileLines
    /\ contains_ret = None
    /\ snippet_ret = None
    /\ modes_pc = "contains"
    /\ show_snippets = FALSE
    /\ search_text \in Needles
    /\ snippet_chars = 120
    /\ overlap = <<>>
    /\ combined = <<>>
    /\ text = <<>>
    /\ nlines = 0
    /\ decode_failed = FALSE
    /\ result = "running"
    /\ snippet = NoSnippet
    /\ pc = "idle"
    /\ files_processed = 0
    /\ files_matched = 0
    /\ total_assets = 0
    /\ errors = 0
    /\ DispIdle /\ NormIdle /\ AssetsIdle /\ ArgsIdle /\ OpenIdle

\* main.rs 663: file_contains_case_insensitive(path, st, max_file_size_bytes)
CallContains ==
    /\ modes_pc = "contains"
    /\ contains_ret' = Some(file_contains_case_insensitive(file_lines, <<>>, search_text))
    /\ modes_pc' = "snippet"
    /\ UNCHANGED <<file_lines, snippet_ret>>
    /\ UNCHANGED <<match_vars, counter_vars, disp_vars, norm_vars, asset_vars,
                   args_vars, open_vars>>

\* main.rs 650: file_snippet_case_insensitive(path, st, max_file_size_bytes,
\* snippet_chars)
CallSnippet ==
    /\ modes_pc = "snippet"
    /\ snippet_ret' = Some(file_snippet_case_insensitive(
                               file_lines, <<>>, search_text, snippet_chars))
    /\ modes_pc' = "done"
    /\ UNCHANGED <<file_lines, contains_ret>>
    /\ UNCHANGED <<match_vars, counter_vars, disp_vars, norm_vars, asset_vars,
                   args_vars, open_vars>>

ModesNext ==
    \/ CallContains
    \/ CallSnippet

SpecModes == ModesInit /\ [][ModesNext]_vars

\* ------------------------------------------------------ claims of SpecMatch

\* C1 (as claimed): for a non-empty needle, the contains scan returns true if
\* and only if the case-folded needle is a substring of the case-folded text,
\* whatever the line breaks: `text` is the file's lines joined without them.
C1_ContainsIffSubstring ==
    (~show_snippets /\ search_text # <<>> /\ result \in {"Ok(true)", "Ok(false)"})
        => ((result = "Ok(true)")
                <=> contains(to_lowercase(text), to_lowercase(search_text)))

\* C2 (as claimed): the context window of a returned snippet (the snippet
\* without its "..." markers) has at most N characters, N being snippet_chars
\* or 120 when 0 is given.
C2_WindowWithinBudget ==
    result = "Ok(Some)" => Len(snippet.slice) <= total_chars_of(snippet_chars)

\* C8: in contains and snippet modes a line that fails UTF-8 decoding ends the
\* scan with an error result (the line is not skipped, the file is not
\* reported as a match or as no match), and the caller counts it in the error
\* counter and not in the match counter.
C8_DecodeErrorIsCounted ==
    decode_failed =>
        /\ result = "Err"
        /\ pc \in {"processed", "done"} => (errors = 1 /\ files_matched = 0)

\* C8's case: a scan that read a decodable, non-matching line and then a line
\* that failed decoding, and whose closure has finished.
C8_Witness ==
    decode_failed /\ nlines = 2 /\ text # <<>> /\ pc = "done" /\ errors = 1

\* C15 (as claimed): the snippet starts with "..." exactly when its window
\* does not begin at the start of the combined text and ends with "..."
\* exactly when its window does not reach the end of the combined text; a
\* window that extends to the end of the combined text (as for a match at the
\* end of the line) has no trailing "...".
C15_MarkersIffTruncated ==
    (result = "Ok(Some)" /\ search_text # <<>>) =>
        /\ snippet.prefix <=> snippet.start > 0
        /\ snippet.suffix <=> snippet.end < len(snippet.line)
        /\ snippet.end0 = len(snippet.line) => ~snippet.suffix

\* C16: both ends of the slice are character boundaries of the combined text
\* and the start is not after the end, so the slicing does not fail and splits
\* no character.
C16_SliceOnCharBoundaries ==
    result = "Ok(Some)" =>
        /\ is_char_boundary(snippet.line, snippet.start)
        /\ is_char_boundary(snippet.line, snippet.end)
        /\ snippet.start <= snippet.end
        /\ snippet.end <= len(snippet.line)

\* C16's case: a snippet was cut whose window, before it is aligned, starts
\* inside a multi-byte character.
C16_Witness ==
    /\ result = "Ok(Some)"
    /\ ~is_char_boundary(snippet.line, snippet.start0)
    /\ snippet.start < snippet.start0

\* C17 (as claimed): after a non-matching line the carry-over holds at most
\* as many characters as the search term has, less one; it is the tail of the
\* combined text just tested, and the whole of it when that text is shorter
\* than the search term.
C17_OverlapBelowNeedleChars ==
    (pc = "scan" /\ result = "running" /\ nlines > 0) =>
        /\ Len(overlap) <= Len(search_text) - 1
        /\ overlap = SubSeq(combined, Len(combined) - Len(overlap) + 1, Len(combined))
        /\ Len(combined) < Len(search_text) => overlap = combined

\* C17 (amended): after a non-matching line the carry-over holds at most
\* b - 1 characters, b being the length of the search term in bytes of UTF-8;
\* it is the tail of that many characters of the combined text just tested
\* (all of it when it has fewer), and the whole combined text when that has
\* fewer bytes than the search term.
C17_OverlapBelowNeedleBytes ==
    (pc = "scan" /\ result = "running" /\ nlines > 0) =>
        /\ Len(overlap) <= len(search_text) - 1
        /\ overlap = SubSeq(combined, Len(combined) - Len(overlap) + 1, Len(combined))
        /\ Len(overlap) = Min(Len(combined), len(search_text) - 1)
        /\ len(combined) < len(search_text) => overlap = combined

\* C17's case: a second line did not match and the carry-over is a proper
\* tail of the combined text, of b - 1 characters with the search term
\* holding a multi-byte character.
C17_Witness ==
    /\ pc = "scan" /\ result = "running" /\ nlines >= 2
    /\ len(search_text) > Len(search_text)
    /\ Len(overlap) = len(search_text) - 1
    /\ Len(overlap) < Len(combined)


\* C21 (as claimed): whenever a snippet is returned and the budget is at least
\* the search term's length, the returned text holds the whole matched
\* occurrence: the search term is, letter case aside, a substring of it,
\* wherever in the line the match lies.
C21_SnippetHoldsMatch ==
    (/\ result = "Ok(Some)"
     /\ search_text # <<>>
     /\ total_chars_of(snippet_chars) >= Len(search_text)) =>
        contains(to_ascii_lowercase(snippet_string(snippet)),
                 to_ascii_lowercase(search_text))


\* ----------------------------------------------------------- claims of Spec

\* The files whose closure has gone through its match on the scan's result.
Recorded == {f \in Files : status[f] = "processed"
                \/ \E w \in Workers : wfile[w] = f /\ wpc[w] = "processed"}

\* The files whose scan was started (the closure's check did not see the flag).
Started == {f \in Files : status[f] \in {"scanning", "processed"}}

\* The scans that skipped a file over the threshold and whose closure has gone
\* through its match on the result.
RecordedOversize ==
    outcomes.oversize - Cardinality({w \in Workers : scan[w].oversize})

\* C3: in every mode, a file whose on-disk size exceeds the threshold that is
\* set yields no result (not an error, no hit) without having been opened, and
\* neither the error counter nor the match counter is incremented for it: the
\* two counters together count only recorded files that were not over the
\* threshold.
C3_OversizeSkippedUnopened ==
    /\ \A w \in Workers :
        scan[w].oversize =>
            scan[w].ret = "Ok" /\ scan[w].hits = 0 /\ ~scan[w].opened
    /\ errors + files_matched <= Cardinality(Recorded) - RecordedOversize

\* C3's case: the run has ended and a file that was over the threshold went
\* through its closure.
C3_Witness ==
    main_pc = "exited" /\ outcomes.oversize >= 1 /\ files_processed >= 1

\* C9: once the flag is raised no scan is started; a file whose check saw the
\* flag is never scanned and never counted as processed; a scan that was
\* started is never abandoned: its worker can always take its next step, and
\* when try_for_each has returned every started scan has been recorded in the
\* counters and counted as processed.
C9_NoNewScanAfterInterrupt ==
    /\ [][interrupted =>
            \A f \in Files : status'[f] = "scanning" => status[f] = "scanning"]_vars
    /\ [](\A w \in Workers : scan[w] # NotScanned => status[wfile[w]] = "scanning")
    /\ [][\A f \in Files : status[f] = "cancelled" => status'[f] = "cancelled"]_vars
    /\ [](files_processed = Cardinality({f \in Files : status[f] = "processed"}))
    /\ [](\A w \in Workers :
            wpc[w] \in {"scan", "count", "processed"} => ENABLED Worker(w))
    /\ [](main_pc = "exited" =>
            /\ \A f \in Started : status[f] = "processed"
            /\ files_processed = Cardinality(Started)
            /\ errors = outcomes.err
            /\ files_matched = outcomes.hit)

\* C9's case: the flag is raised while one file's scan is in flight and
\* another file's check has seen the flag.
C9_Witness ==
    /\ interrupted
    /\ \E f, g \in Files :
        /\ status[f] = "scanning" /\ \E w \in Workers : wfile[w] = f /\ wpc[w] = "scan"
        /\ status[g] = "cancelled"

\* C10: if the flag is never raised then, whichever scans return an error,
\* the run ends with every file of the list processed exactly once:
\* files_processed equals the number of files.
C10_ErrorsNeverAbort ==
    ([]~interrupted) =>
        <>(/\ main_pc = "exited"
           /\ files_processed = NumFiles
           /\ \A f \in Files : status[f] = "processed"
           /\ exit_code = 0)

\* C10's case: a run that ended uninterrupted in which one scan returned an
\* error and another did not.
C10_Witness ==
    /\ main_pc = "exited" /\ ~interrupted /\ files_processed = NumFiles
    /\ outcomes.err >= 1 /\ errors = outcomes.err /\ errors < NumFiles

\* C12: in every mode each scan that returns an error increments the error
\* counter exactly once and the file is not scanned again: the counter equals
\* the number of error returns whose closure has matched on them, a file being
\* scanned is with exactly one worker, a scanned file is never handed out
\* again, and when the run has ended the counter equals the number of
\* processed files whose scan returned an error.
C12_ErrorsCountedOnce ==
    /\ [](errors = outcomes.err
                    - Cardinality({w \in Workers : scan[w].ret = "Err"}))
    /\ [](\A f \in Files : status[f] = "scanning" =>
                Cardinality({w \in Workers : wfile[w] = f}) = 1)
    /\ [][\A f \in Files : status[f] \in {"scanning", "processed"} =>
                status'[f] \in {"scanning", "processed"}]_vars
    /\ [][errors' \in {errors, errors + 1}]_vars
    /\ [](main_pc = "exited" =>
            errors = outcomes.err /\ errors <= files_processed)

\* C12's case: the run has ended, every file was processed and the scan of
\* each returned an error.
C12_Witness ==
    /\ main_pc = "exited" /\ files_processed = NumFiles
    /\ outcomes.err = NumFiles /\ errors = NumFiles

\* C22: under every interleaving of the workers the counters lose no update:
\* files_processed counts each processed file once, the error and match
\* counters together count each file whose result was recorded at most once
\* (a scan returns an error or a hit, never both), and when the run has ended
\* every scan's result is in the counters, files_matched + errors <=
\* files_processed <= the number of files, and files_processed is the number
\* of scans that were started.
C22_CountersConsistent ==
    /\ files_processed = Cardinality({f \in Files : status[f] = "processed"})
    /\ errors + files_matched
           = outcomes.err + outcomes.hit
               - Cardinality({w \in Workers :
                                scan[w].ret = "Err" \/ scan[w].hits > 0})
    /\ errors + files_matched <= Cardinality(Recorded)
    /\ outcomes.err + outcomes.hit <= Cardinality(Started)
    /\ main_pc = "exited" =>
        /\ errors = outcomes.err
        /\ files_matched = outcomes.hit
        /\ files_matched + errors <= files_processed
        /\ files_processed <= NumFiles
        /\ files_processed = Cardinality(Started)

\* C22's case: two workers are about to increment files_processed at once,
\* one after a scan that returned an error and one after a hit.
C22_Witness ==
    /\ \E v, w \in Workers : v # w /\ wpc[v] = "processed" /\ wpc[w] = "processed"
    /\ errors >= 1
    /\ files_matched >= 1

\* C23: the run is reported as complete (not interrupted, exit code 0) only
\* if every file of the list was processed; when a file was left unscanned,
\* handed out to a closure that saw the flag or never handed out, the run is
\* reported as interrupted and exits with code 130.
C23_CompleteOnlyIfAllProcessed ==
    main_pc = "exited" =>
        /\ (~was_interrupted /\ exit_code = 0) =>
              /\ \A f \in Files : status[f] = "processed"
              /\ files_processed = NumFiles
        /\ (\E f \in Files : status[f] # "processed") =>
              was_interrupted /\ exit_code = 130
        /\ was_interrupted <=> exit_code = 130

\* C23's case: the run has ended with one file processed and another left
\* unscanned because of the flag.
C23_Witness ==
    /\ main_pc = "exited" /\ exit_code = 130 /\ interrupted
    /\ \E f, g \in Files :
        status[f] = "processed" /\ status[g] \in {"cancelled", "pending"}


\* ------------------------------------------------------- claims of SpecNorm
\* C6: normalizing an already normalized value returns it unchanged:
\* normalize_asset_path(normalize_asset_path(s)) = normalize_asset_path(s) for
\* every raw value s.
C6_NormalizeIdempotent ==
    norm_twice # None => norm_twice = norm_once

\* ----------------------------------------------------- claims of SpecAssets
\* char::to_uppercase on the characters the model uses; two letters that differ
\* only in case have the same capital.
to_uppercase_char(c) ==
    IF c >= 97 /\ c <= 122 THEN c - 32
    ELSE IF c \in {962, 963} THEN 931
    ELSE c

differ_only_in_case(a, b) ==
    /\ Len(a) = Len(b)
    /\ \A i \in 1..Len(a) : to_uppercase_char(a[i]) = to_uppercase_char(b[i])

\* C4: the returned asset list never holds two entries that are equal up to
\* letter case: references that differ only in letter case, or are repeated,
\* yield exactly one entry.
C4_OneEntryPerCaseVariant ==
    returned.state = "Ok" =>
        \A i, j \in 1..Len(returned.assets) :
            i # j => ~differ_only_in_case(returned.assets[i], returned.assets[j])

\* C5: whenever extract_assets_from_prproj returns assets, at the end of the
\* document or after a parser error, the list is lexicographically
\* non-decreasing.
C5_ReturnedListSorted ==
    returned.state # "running" =>
        \A i \in 1..(Len(returned.assets) - 1) :
            ~LexLess(returned.assets[i + 1], returned.assets[i])

\* A parser error after two assets were met out of order.
C5_Witness ==
    /\ parse_failed
    /\ returned.state = "Ok"
    /\ Len(returned.assets) >= 2
    /\ returned.assets # assets

Elements(list) == {list[i] : i \in 1..Len(list)}

\* C7: when the parser reports an error partway through a document, the
\* extractor returns a success holding exactly the assets accumulated from the
\* events before the error, and the caller does not count an error for the file.
C7_ParseErrorReturnsAccumulated ==
    /\ [][(parse_failed' /\ ~parse_failed) =>
            /\ returned'.state = "Ok"
            /\ Len(returned'.assets) = Len(assets)
            /\ Elements(returned'.assets) = Elements(assets)
            /\ assets' = assets]_vars
    /\ [](parse_failed => /\ returned.state = "Ok"
                          /\ Elements(returned.assets) = Elements(assets)
                          /\ errors = 0)

\* A parser error after an asset was met; the file is counted as a match and
\* as processed, not as an error.
C7_Witness ==
    /\ parse_failed
    /\ events_read >= 1
    /\ returned.state = "Ok"
    /\ returned.assets # <<>>
    /\ xml_pc = "done"
    /\ files_matched = 1
    /\ files_processed = 1
    /\ errors = 0

\* C18 (as claimed): a text event adds a path to the list only if the most
\* recent tag event before it was the start tag of a path-named element, so
\* the text of a child element that is not path-named, nested in a path-named
\* element, is not harvested.
C18_TextOnlyAfterPathStart ==
    [][(EvText /\ assets' # assets) => last_tag = "path_start"]_vars

\* The part of a path after the last '.' of its final component (the
\* components being separated by '/' or '\'), None when that component has no
\* '.'.
part_after_last_dot(p) ==
    LET seps == {i \in 1..Len(p) : p[i] \in {47, 92}}
        from == IF seps = {} THEN 1 ELSE 1 + CHOOSE i \in seps : \A j \in seps : j <= i
        dots == {i \in from..Len(p) : p[i] = 46}
    IN  IF dots = {} THEN None
        ELSE Some(SubSeq(p, 1 + (CHOOSE i \in dots : \A j \in dots : j <= i), Len(p)))

\* C19: every path extract_assets_from_prproj returns has, after the last '.'
\* of its final component, an extension that is on the list of asset
\* extensions or differs from a listed one only in letter case; a value with
\* no extension or an unlisted one is not returned.
C19_ReturnedHaveListedExtension ==
    \A i \in 1..Len(returned.assets) :
        LET ext == part_after_last_dot(returned.assets[i]) IN
        /\ ext # None
        /\ \E e \in asset_exts : differ_only_in_case(ext[1], e)

\* C19's case: the returned list holds a path whose extension is written in
\* capitals and one in a directory, after more values were read than kept.
C19_Witness ==
    /\ returned.state = "Ok"
    /\ \E i, j \in 1..Len(returned.assets) :
        /\ part_after_last_dot(returned.assets[i]) = Some(<<77, 80, 52>>)
        /\ \E k \in 1..Len(returned.assets[j]) : returned.assets[j][k] = 92
    /\ events_read > Len(returned.assets)

\* ------------------------------------------------------ claims of SpecArgs
\* C11 (as claimed): in contains and snippet mode an empty search term is
\* refused before any file is scanned, whichever source gave it, so neither
\* scan function is ever called with a term of length zero.
C11_EmptyTermRejected ==
    (scan_call # None /\ scan_call[1].term # None) => scan_call[1].term[1] # <<>>

\* C13 (as claimed): the threshold is 100 MB when none is configured, no
\* threshold at all when 0 is configured, and mb * 1024 * 1024 bytes for any
\* other configured mb; with 0 configured no file is skipped for its size.
C13_ZeroDisablesLimit ==
    LET mb == IF config = None THEN None ELSE config[1].max_file_size_mb
    IN  /\ main_pc \in {"closure", "called"} =>
            max_file_size_bytes = IF mb = None THEN Some(100 * 1024 * 1024)
                                  ELSE IF mb[1] = 0 THEN None
                                  ELSE Some(mb[1] * 1024 * 1024)
        /\ (scan_call # None /\ mb = Some(0)) => ~scan_call[1].oversize

\* ------------------------------------------------------ claims of SpecOpen
\* C14: the reader is the gzip decoder exactly when the file has at least two
\* bytes and its first two are 0x1F 0x8B; the peek consumes nothing: the
\* reader, gzip or plain, is given the file from offset 0.
C14_GzipIffMagic ==
    reader \in {"gzip", "plain"} =>
        /\ reader = "gzip" <=> /\ Len(file_bytes) >= 2
                               /\ file_bytes[1] = 31
                               /\ file_bytes[2] = 139
        /\ file_pos = 0
        /\ stream = file_bytes

\* C14's case: a file of three bytes that starts with the magic number has
\* been given its reader.
C14_Witness ==
    /\ reader = "gzip" /\ Len(file_bytes) = 3 /\ magic_n = 2

\* ----------------------------------------------------- claims of SpecModes
\* C20 (as claimed): for every sequence of decoded lines and every non-empty
\* search term, file_snippet_case_insensitive returns a snippet if and only if
\* file_contains_case_insensitive returns true.
C20_ModesAgree ==
    (modes_pc = "done" /\ search_text # <<>>) =>
        (snippet_ret[1] # None <=> contains_ret[1])

=============================================================================
